---- MODULE Spec2Model ----
(***************************************************************************)
(* The random-interval sound widget of public/app.js: one wired container, *)
(* its closure state, the browser's timers, the shared audio element and   *)
(* the event handlers, each handler one atomic step of the event loop.     *)
(***************************************************************************)
EXTENDS Integers, FiniteSets, Sequences, TLC

VARIABLES
    minSec,        \* let minSec = 60                      (app.js:49)
    maxSec,        \* let maxSec = 300                     (app.js:50)
    running,       \* let running = false                  (app.js:52)
    scheduledAt,   \* let scheduledAt = 0   (ms)           (app.js:55)
    fireAt,        \* let fireAt = 0        (ms)           (app.js:56)
    timeoutId,     \* let timeoutId = null; 0 stands for null (app.js:57)
    uiIntervalId,  \* let uiIntervalId = null; 0 is null   (app.js:60)
    lastRandomAt,  \* let lastRandomAt = null; 0 is null   (app.js:63)
    gen,           \* let gen = 0                          (app.js:67)
    audioPaused,   \* audio.paused of the shared Audio element (app.js:3)
    now,           \* Date.now(), in ms
    timers,        \* the browser's pending setTimeout entries
    intervals,     \* the browser's active setInterval handles
    nextHandle,    \* the next handle setTimeout / setInterval returns
    awaiting,      \* async callbacks suspended in `await audio.play()`
    clearWorks,    \* whether native clearTimeout removes the pending entry
    obs,           \* the handler that ran last (observation only)
    stopMark       \* nextHandle at the latest stop() (observation only)

vars == <<minSec, maxSec, running, scheduledAt, fireAt, timeoutId, uiIntervalId,
          lastRandomAt, gen, audioPaused, now, timers, intervals, nextHandle,
          awaiting, clearWorks, obs, stopMark>>

(***************************************************************************)
(* Bounds of the exploration.                                              *)
(***************************************************************************)
\* gen is unbounded in the program; handlers that would push it past MaxGen are not explored
MaxGen == 3
\* the number of clock steps (of TickMs each) explored
MaxTicks == 2
\* Math.random() is explored at RandDraws evenly spaced values of [0, 1)
RandDraws == 3
\* at most this many Play Now handlers are suspended in their await at a time
MaxNowPending == 2
\* SpecUi lets the clock advance by this many UI periods on top of the minute steps
MaxFineTicks == 2
\* Spec explores the windows whose maxSec is within this many 60 s steps of the default
MaxWindowSteps == 1

\* Date.now() when the page is wired; any positive number of ms
PageLoadTime == 1000000
\* Math.random() is modelled in units of 1 / RandomScale
RandomScale == 1000
\* period of the UI loop: setInterval(updateUI, 200)
UiPeriodMs == 200
\* the clock is explored in steps of one minute
TickMs == 60 * 1000

MathRandom == { (k * (RandomScale - 1)) \div (RandDraws - 1) : k \in 0 .. (RandDraws - 1) }

(***************************************************************************)
(* Utilities                                                               *)
(***************************************************************************)
Min(a, b) == IF a <= b THEN a ELSE b
Max(a, b) == IF a >= b THEN a ELSE b

\* clamp with the lower limit forgotten
clampNoFloor(n, a, b) == Min(b, n)

clamp(n, a, b) == Max(a, Min(b, n))

\* randInt with the "+ min" forgotten
randIntNoOffset(min, max, r) == (r * (max - min + 1)) \div RandomScale

\* Math.floor(Math.random() * (max - min + 1)) + min, with Math.random() = r / RandomScale
randInt(min, max, r) == ((r * (max - min + 1)) \div RandomScale) + min

(***************************************************************************)
(* The closure state and the browser state as one record, so that a        *)
(* handler is the composition of the functions it calls.                   *)
(***************************************************************************)
State ==
    [minSec |-> minSec, maxSec |-> maxSec, running |-> running,
     scheduledAt |-> scheduledAt, fireAt |-> fireAt, timeoutId |-> timeoutId,
     uiIntervalId |-> uiIntervalId, lastRandomAt |-> lastRandomAt, gen |-> gen,
     audioPaused |-> audioPaused, now |-> now, timers |-> timers,
     intervals |-> intervals, nextHandle |-> nextHandle, awaiting |-> awaiting,
     clearWorks |-> clearWorks]

NoCallback == [id |-> 0, myGen |-> 0]

\* one step of the event loop: handler `op` took the state to s.  obs keeps
\* the last handler other than a clock step or a UI refresh: its name, the
\* timer callback it ran (if any) and whether it armed a schedule
Step(s, op, cb) ==
    /\ s.gen <= MaxGen
    /\ minSec' = s.minSec
    /\ maxSec' = s.maxSec
    /\ running' = s.running
    /\ scheduledAt' = s.scheduledAt
    /\ fireAt' = s.fireAt
    /\ timeoutId' = s.timeoutId
    /\ uiIntervalId' = s.uiIntervalId
    /\ lastRandomAt' = s.lastRandomAt
    /\ gen' = s.gen
    /\ audioPaused' = s.audioPaused
    /\ now' = s.now
    /\ timers' = s.timers
    /\ intervals' = s.intervals
    /\ nextHandle' = s.nextHandle
    /\ awaiting' = s.awaiting
    /\ clearWorks' = s.clearWorks
    /\ obs' = IF op \in {"tick", "ui"} THEN obs
              ELSE [op |-> op, cb |-> cb, armed |-> s.running /\ s.gen # gen]
    /\ stopMark' = IF op \in {"toggle", "pagehide"} /\ ~s.running
                   THEN s.nextHandle ELSE stopMark

(***************************************************************************)
(* Browser primitives                                                      *)
(***************************************************************************)
\* setTimeout(callback, delayMs): the callback closes over myGen; the handle
\* returned is s.nextHandle
setTimeout(s, myGen, delayMs) ==
    [s EXCEPT !.timers = @ \cup {[id |-> s.nextHandle, myGen |-> myGen,
                                  due |-> s.now + delayMs]},
              !.nextHandle = @ + 1]

clearTimeout(s, id) ==
    IF s.clearWorks THEN [s EXCEPT !.timers = {t \in @ : t.id # id}] ELSE s

setInterval(s) ==
    [s EXCEPT !.intervals = @ \cup {s.nextHandle}, !.nextHandle = @ + 1]

clearInterval(s, id) == [s EXCEPT !.intervals = @ \ {id}]

\* audio.pause(): paused becomes true and every pending play() promise is
\* rejected (AbortError); the rejection reaches its awaiter in a later task
audioPause(s) ==
    [s EXCEPT !.audioPaused = TRUE,
              !.awaiting = {[c EXCEPT !.aborted = TRUE] : c \in @}]

\* audio.play() accepted by the browser: paused becomes false, the promise
\* is pending and callback c is suspended on it
audioPlay(s, c) ==
    [s EXCEPT !.audioPaused = FALSE, !.awaiting = @ \cup {c}]

(***************************************************************************)
(* UI helpers: they write DOM nodes only                                   *)
(***************************************************************************)
setStartLabel(s) == s

updateUI(s) == s

\* fmtCountdown rounding the seconds down
fmtCountdownFloor(msLeft) ==
    LET s == Max(0, msLeft \div 1000)
        m == s \div 60
        r == s % 60
    IN  IF m > 0 THEN <<m, "m ", r, "s">> ELSE <<r, "s">>

\* fmtCountdown(msLeft) for a number msLeft: s = Math.max(0, Math.ceil(msLeft / 1000));
\* the text `${m}m ${r}s` or `${r}s` is kept as the tuple of its parts
fmtCountdown(msLeft) ==
    LET s == Max(0, -((-msLeft) \div 1000))
        m == s \div 60
        r == s % 60
    IN  IF m > 0 THEN <<m, "m ", r, "s">> ELSE <<r, "s">>

\* the text updateUI gives the countdown when it runs in state s; the
\* placeholder, an em dash in the source, is written "-"
countdownShown(s) ==
    IF ~s.running \/ s.fireAt = 0 \/ s.scheduledAt = 0
    THEN <<"-">>
    ELSE fmtCountdown(s.fireAt - s.now)

\* setProgress(pct) with pct the fraction num / den: the width of the bar,
\* clamp(pct, 0, 100), as a fraction over the same denominator
setProgress(pct) == [num |-> clamp(pct.num, 0, 100 * pct.den), den |-> pct.den]

\* updateUI filling the bar with the share of the interval still to come
progressShownRemaining(s) ==
    IF ~s.running \/ s.fireAt = 0 \/ s.scheduledAt = 0
    THEN setProgress([num |-> 0, den |-> 1])
    ELSE LET total == Max(1, s.fireAt - s.scheduledAt)
             remaining == clamp(s.fireAt - s.now, 0, total)
         IN  setProgress([num |-> remaining * 100, den |-> total])

\* the width updateUI gives the progress bar when it runs in state s
progressShown(s) ==
    IF ~s.running \/ s.fireAt = 0 \/ s.scheduledAt = 0
    THEN setProgress([num |-> 0, den |-> 1])
    ELSE LET total == Max(1, s.fireAt - s.scheduledAt)
             elapsed == clamp(s.now - s.scheduledAt, 0, total)
         IN  setProgress([num |-> elapsed * 100, den |-> total])

startUiLoop(s) ==
    LET s1 == IF s.uiIntervalId # 0 THEN clearInterval(s, s.uiIntervalId) ELSE s
    IN  [setInterval(s1) EXCEPT !.uiIntervalId = s1.nextHandle]

stopUiLoop(s) ==
    LET s1 == IF s.uiIntervalId # 0 THEN clearInterval(s, s.uiIntervalId) ELSE s
    IN  [s1 EXCEPT !.uiIntervalId = 0]

(***************************************************************************)
(* Scheduling                                                              *)
(***************************************************************************)
\* clearSchedule with the gen++ forgotten
clearScheduleKeepsGen(s) ==
    LET s2 == IF s.timeoutId # 0
              THEN [clearTimeout(s, s.timeoutId) EXCEPT !.timeoutId = 0]
              ELSE s
    IN  [s2 EXCEPT !.scheduledAt = 0, !.fireAt = 0]

clearSchedule(s) ==
    LET s1 == [s EXCEPT !.gen = @ + 1]
        s2 == IF s1.timeoutId # 0
              THEN [clearTimeout(s1, s1.timeoutId) EXCEPT !.timeoutId = 0]
              ELSE s1
    IN  [s2 EXCEPT !.scheduledAt = 0, !.fireAt = 0]

\* scheduleNext up to and including setTimeout; r is the Math.random() draw
scheduleNext(s, r) ==
    IF ~s.running THEN s
    ELSE LET s1 == clearSchedule(s)
             delaySec == randInt(s1.minSec, s1.maxSec, r)
             s2 == [s1 EXCEPT !.scheduledAt = s1.now,
                              !.fireAt = s1.now + delaySec * 1000]
             myGen == s2.gen
         IN  [setTimeout(s2, myGen, delaySec * 1000) EXCEPT !.timeoutId = s2.nextHandle]

\* the timeout callback's first line without the generation comparison
isStaleRunningOnly(s, myGen) == ~s.running

\* the timeout callback without its first line
isStaleUnchecked(s, myGen) == FALSE

\* the timeout callback's first line: if (!running || myGen !== gen) return
isStale(s, myGen) == ~s.running \/ myGen # s.gen

\* the timeout callback arming again after its await whatever happened meanwhile
rearmAfterPlayUnchecked(s, myGen, r) == scheduleNext(s, r)

\* the timeout callback ending after its await without arming again
rearmAfterPlayNever(s, myGen, r) == s

\* the timeout callback after its await: if (running && myGen === gen) scheduleNext(false)
rearmAfterPlay(s, myGen, r) ==
    IF s.running /\ myGen = s.gen THEN scheduleNext(s, r) ELSE s

(***************************************************************************)
(* Controls                                                                *)
(***************************************************************************)
start(s, r) ==
    updateUI(scheduleNext(startUiLoop(setStartLabel([s EXCEPT !.running = TRUE])), r))

\* stop leaving the UI loop on
stopKeepsUiLoop(s) ==
    updateUI(clearSchedule(setStartLabel([s EXCEPT !.running = FALSE])))

\* stop doing nothing when the loop is not running
stopWhenRunning(s) ==
    IF s.running
    THEN updateUI(stopUiLoop(clearSchedule(setStartLabel([s EXCEPT !.running = FALSE]))))
    ELSE s

stop(s) ==
    updateUI(stopUiLoop(clearSchedule(setStartLabel([s EXCEPT !.running = FALSE]))))

toggle(s, r) == IF s.running THEN stop(s) ELSE start(s, r)

\* expandWindow re-arming before it has updated the window
expandWindowArmsFirst(s, r) ==
    LET s1 == IF s.running THEN scheduleNext(s, r) ELSE s
        lo == clamp(s1.minSec + 60, 30, 60 * 60)
        hi == clamp(s1.maxSec + 60, lo + 30, 60 * 60 * 2)
    IN  updateUI([s1 EXCEPT !.minSec = lo, !.maxSec = hi])

\* expandWindow raising maxSec by 120
expandWindowBy120(s, r) ==
    LET lo == clamp(s.minSec + 60, 30, 60 * 60)
        hi == clamp(s.maxSec + 120, lo + 30, 60 * 60 * 2)
        s1 == [s EXCEPT !.minSec = lo, !.maxSec = hi]
    IN  updateUI(IF s1.running THEN scheduleNext(s1, r) ELSE s1)

\* expandWindow clamping minSec to the ceiling of maxSec
expandWindowWrongCeiling(s, r) ==
    LET lo == clamp(s.minSec + 60, 30, 60 * 60 * 2)
        hi == clamp(s.maxSec + 60, lo + 30, 60 * 60 * 2)
        s1 == [s EXCEPT !.minSec = lo, !.maxSec = hi]
    IN  updateUI(IF s1.running THEN scheduleNext(s1, r) ELSE s1)

expandWindow(s, r) ==
    LET lo == clamp(s.minSec + 60, 30, 60 * 60)
        hi == clamp(s.maxSec + 60, lo + 30, 60 * 60 * 2)
        s1 == [s EXCEPT !.minSec = lo, !.maxSec = hi]
    IN  updateUI(IF s1.running THEN scheduleNext(s1, r) ELSE s1)

shrinkWindow(s, r) ==
    LET lo == clamp(s.minSec - 60, 30, 60 * 60)
        hi == clamp(s.maxSec - 60, lo + 30, 60 * 60 * 2)
        s1 == [s EXCEPT !.minSec = lo, !.maxSec = hi]
    IN  updateUI(IF s1.running THEN scheduleNext(s1, r) ELSE s1)

(***************************************************************************)
(* Playback.  An async function runs to its await in the task that called  *)
(* it (the ...Call part) and resumes when the play() promise settles (the  *)
(* ...Settle part).  `allowed` is whether the browser accepts audio.play();*)
(* a refused play() returns an already rejected promise.                   *)
(***************************************************************************)
scheduledAwaiter(cb) == [kind |-> "sched", id |-> cb.id, myGen |-> cb.myGen, aborted |-> FALSE]

\* the Play Now handlers suspended in their await
nowAwaiters(s) == {c \in s.awaiting : c.kind = "now"}

\* a Play Now handler about to be suspended; every click has a handler of its
\* own, and id is its rank by age among the Play Now handlers suspended
nowAwaiter(s) ==
    [kind |-> "now", id |-> Cardinality(nowAwaiters(s)) + 1, myGen |-> 0,
     aborted |-> FALSE]

\* the suspended handlers once Play Now handler c has resumed: the younger
\* Play Now handlers move up one rank
withoutNowAwaiter(s, c) ==
    {IF d.kind = "now" /\ d.id > c.id THEN [d EXCEPT !.id = @ - 1] ELSE d :
         d \in s.awaiting \ {c}}

\* playScheduledOnce with lastRandomAt set before the await instead of after it
playScheduledOnceCallMarksLast(s, cb, allowed) ==
    LET s1 == [audioPause(s) EXCEPT !.lastRandomAt = s.now]
    IN  IF allowed THEN audioPlay(s1, scheduledAwaiter(cb)) ELSE s1

playScheduledOnceCall(s, cb, allowed) ==
    LET s1 == audioPause(s)
    IN  IF allowed THEN audioPlay(s1, scheduledAwaiter(cb)) ELSE s1

\* playScheduledOnce with lastRandomAt set after the try / catch
playScheduledOnceSettleAlways(s, resolved) == [s EXCEPT !.lastRandomAt = s.now]

\* after the await: lastRandomAt = Date.now() when play() resolved, the catch otherwise
playScheduledOnceSettle(s, resolved) ==
    IF resolved THEN [s EXCEPT !.lastRandomAt = s.now] ELSE s

playNowOnlyCall(s, allowed) ==
    LET s1 == audioPause(s)
    IN  IF allowed THEN audioPlay(s1, nowAwaiter(s1)) ELSE s1

\* playNowOnly copied from playScheduledOnce with the lastRandomAt line left in
playNowOnlySettleMarksLast(s, resolved) ==
    IF resolved THEN [s EXCEPT !.lastRandomAt = s.now] ELSE s

playNowOnlySettle(s, resolved) == s

\* the callback ending, without arming again, when play() is refused at once
timeoutCallbackDropsBlocked(s, t, allowed, r) ==
    LET s0 == [s EXCEPT !.timers = @ \ {t}]
        cb == [id |-> t.id, myGen |-> t.myGen]
    IN  IF isStale(s0, t.myGen) THEN s0
        ELSE IF allowed THEN playScheduledOnceCall(s0, cb, TRUE)
        ELSE playScheduledOnceSettle(playScheduledOnceCall(s0, cb, FALSE), FALSE)

\* the setTimeout callback of scheduleNext, run for timer entry t, up to its
\* await; with play() refused the rejection is delivered in the same task
timeoutCallback(s, t, allowed, r) ==
    LET s0 == [s EXCEPT !.timers = @ \ {t}]
        cb == [id |-> t.id, myGen |-> t.myGen]
    IN  IF isStale(s0, t.myGen) THEN s0
        ELSE IF allowed THEN playScheduledOnceCall(s0, cb, TRUE)
        ELSE rearmAfterPlay(
                 playScheduledOnceSettle(playScheduledOnceCall(s0, cb, FALSE), FALSE),
                 t.myGen, r)

\* the callback with playScheduledOnce not catching: a rejection ends it
timeoutResumeNoCatch(s, c, resolved, r) ==
    LET s0 == [s EXCEPT !.awaiting = @ \ {c}]
    IN  IF resolved
        THEN rearmAfterPlay(playScheduledOnceSettle(s0, TRUE), c.myGen, r)
        ELSE s0

\* the same callback resumed when the promise awaiter c waits on settles
timeoutResume(s, c, resolved, r) ==
    LET s0 == [s EXCEPT !.awaiting = @ \ {c}]
    IN  rearmAfterPlay(playScheduledOnceSettle(s0, resolved), c.myGen, r)

\* the btnNow click handler: await playNowOnly(), nothing after it
btnNowCallback(s, allowed) ==
    IF allowed THEN playNowOnlyCall(s, TRUE)
    ELSE playNowOnlySettle(playNowOnlyCall(s, FALSE), FALSE)

btnNowResume(s, c, resolved) ==
    playNowOnlySettle([s EXCEPT !.awaiting = withoutNowAwaiter(s, c)], resolved)

\* the pagehide handler without its audio.pause()
pagehideCallbackNoPause(s) == stop(s)

\* window.addEventListener("pagehide", () => { stop(); audio.pause(); })
pagehideCallback(s) == audioPause(stop(s))

InitWith(nativeClear) ==
    /\ minSec = 60
    /\ maxSec = 300
    /\ running = FALSE
    /\ scheduledAt = 0
    /\ fireAt = 0
    /\ timeoutId = 0
    /\ uiIntervalId = 0
    /\ lastRandomAt = 0
    /\ gen = 0
    /\ audioPaused = TRUE
    /\ now = PageLoadTime
    /\ timers = {}
    /\ intervals = {}
    /\ nextHandle = 1
    /\ awaiting = {}
    /\ clearWorks = nativeClear
    /\ obs = [op |-> "wire", cb |-> NoCallback, armed |-> FALSE]
    /\ stopMark = 0

(***************************************************************************)
(* Event handlers                                                          *)
(***************************************************************************)
btnStartClick == \E r \in MathRandom : Step(toggle(State, r), "toggle", NoCallback)

btnPlusClick == \E r \in MathRandom : Step(expandWindow(State, r), "expand", NoCallback)

btnMinusClick == \E r \in MathRandom : Step(shrinkWindow(State, r), "shrink", NoCallback)

btnNowClick ==
    \E allowed \in BOOLEAN :
        /\ allowed => Cardinality(nowAwaiters(State)) < MaxNowPending
        /\ Step(btnNowCallback(State, allowed),
                IF allowed THEN "playNow:play" ELSE "playNow:blocked", NoCallback)

pagehide == Step(pagehideCallback(State), "pagehide", NoCallback)

\* a pending timer whose time has come runs its callback
TimerFireFor(t, allowed) ==
    \E r \in MathRandom :
        /\ now >= t.due
        /\ Step(timeoutCallback(State, t, allowed, r),
                IF isStale(State, t.myGen) THEN "timer:stale"
                ELSE IF allowed THEN "timer:play" ELSE "timer:blocked",
                [id |-> t.id, myGen |-> t.myGen])

TimerFire == \E t \in timers, allowed \in BOOLEAN : TimerFireFor(t, allowed)

\* a play() promise settles and its awaiter resumes; an aborted promise
\* (audio.pause() since) can only reject
ScheduledPlaySettledFor(c, resolved) ==
    \E r \in MathRandom :
        /\ c.kind = "sched"
        /\ resolved => ~c.aborted
        /\ Step(timeoutResume(State, c, resolved, r),
                IF resolved THEN "resume:resolved" ELSE "resume:rejected",
                [id |-> c.id, myGen |-> c.myGen])

ScheduledPlaySettled ==
    \E c \in awaiting, resolved \in BOOLEAN : ScheduledPlaySettledFor(c, resolved)

PlayNowSettledFor(c, resolved) ==
    /\ c.kind = "now"
    /\ resolved => ~c.aborted
    /\ Step(btnNowResume(State, c, resolved),
            IF resolved THEN "playNow:resolved" ELSE "playNow:rejected", NoCallback)

PlayNowSettled ==
    \E c \in awaiting, resolved \in BOOLEAN : PlayNowSettledFor(c, resolved)

\* the clip plays to its end: paused becomes true again
AudioEnded ==
    /\ ~audioPaused
    /\ \A c \in awaiting : c.aborted
    /\ Step([State EXCEPT !.audioPaused = TRUE], "ended", NoCallback)

\* the setInterval callback
UiTick ==
    /\ intervals # {}
    /\ Step(updateUI(State), "ui", NoCallback)

\* time passes
Tick ==
    /\ (now - PageLoadTime) \div TickMs < MaxTicks
    /\ Step([State EXCEPT !.now = @ + TickMs], "tick", NoCallback)

\* time passes by one period of the UI loop
TickFine ==
    /\ ((now - PageLoadTime) % TickMs) \div UiPeriodMs < MaxFineTicks
    /\ Step([State EXCEPT !.now = @ + UiPeriodMs], "tick", NoCallback)

WindowExplored ==
    /\ maxSec >= 300 - 60 * MaxWindowSteps
    /\ maxSec <= 300 + 60 * MaxWindowSteps

Next ==
    \/ btnStartClick
    \/ btnNowClick
    \/ btnPlusClick /\ WindowExplored'
    \/ btnMinusClick /\ WindowExplored'
    \/ pagehide
    \/ TimerFire
    \/ ScheduledPlaySettled
    \/ PlayNowSettled
    \/ AudioEnded
    \/ UiTick
    \/ Tick

Init == InitWith(TRUE)

InitGhost == InitWith(FALSE)

Spec == Init /\ [][Next]_vars

\* the page in a browser whose clearTimeout has no effect: a cleared timer
\* stays pending and its callback runs when its time has come
SpecGhost == InitGhost /\ [][Next]_vars

\* the page with an event loop that keeps going: time passes, a timer whose
\* time has come runs its callback, a play() promise settles
SpecLive ==
    /\ Init
    /\ [][Next]_vars
    /\ WF_vars(Tick)
    /\ WF_vars(TimerFire)
    /\ WF_vars(ScheduledPlaySettled)

\* every event that writes what the countdown and the progress bar are
\* computed from (running, scheduledAt, fireAt, the clock), with the clock
\* also advancing between the UI refreshes; Play Now writes none of them
NextUi ==
    \/ btnStartClick
    \/ btnPlusClick /\ WindowExplored'
    \/ btnMinusClick /\ WindowExplored'
    \/ pagehide
    \/ TimerFire
    \/ ScheduledPlaySettled
    \/ UiTick
    \/ TickFine
    \/ Tick

SpecUi == Init /\ [][NextUi]_vars

NextWindow == btnStartClick \/ btnPlusClick \/ btnMinusClick

SpecWindow == Init /\ [][NextWindow]_vars
(***************************************************************************)
(* Properties                                                              *)
(***************************************************************************)
\* the step armed a fresh schedule: generation bumped, a new timer entry that
\* captures it, handle and times recorded
NewlyArmed ==
    /\ gen' = gen + 1
    /\ running'
    /\ timeoutId' = nextHandle
    /\ scheduledAt' = now'
    /\ fireAt' >= now' + minSec' * 1000
    /\ \E t \in timers' : t.id = timeoutId' /\ t.myGen = gen' /\ t.due = fireAt'
    /\ \A t \in timers' : t.id = timeoutId' \/ t \in timers

\* the step started no playback and wrote nothing of the schedule
NoScheduledPlay ==
    UNCHANGED <<audioPaused, awaiting, lastRandomAt, gen, timeoutId, scheduledAt,
                fireAt, running, minSec, maxSec>>

\* C1: after any sequence of expand / shrink clicks, running or not,
\* minSec >= 30, maxSec >= minSec + 30 and maxSec <= 7200.
C1_WindowInvariant ==
    /\ minSec >= 30
    /\ maxSec >= minSec + 30
    /\ maxSec <= 7200

\* C1 witness: a shrink while running that hit both lower clamps.
C1_Witness == obs.op = "shrink" /\ running /\ minSec = 30 /\ maxSec = 60

\* C2: at most one schedule is effective at any instant: at most one pending
\* timer is current, and a timer callback other than the one armed last, when
\* it runs, plays nothing and arms nothing.
C2_OneEffectiveSchedule ==
    /\ [](Cardinality({t \in timers : running /\ t.myGen = gen}) <= 1)
    /\ [][\A t \in timers, allowed \in BOOLEAN :
            (TimerFireFor(t, allowed) /\ t.id # timeoutId) => NoScheduledPlay]_vars

\* C2 witness: the callback of a superseded schedule has run as a no-op while
\* the schedule armed after it is still pending.
C2_Witness ==
    /\ obs.op = "timer:stale"
    /\ running
    /\ obs.cb.id # timeoutId
    /\ \E t \in timers : t.id = timeoutId /\ t.myGen = gen

\* C3: a timer callback armed before the latest stop() starts no playback,
\* whenever it runs, before or after a later start().
C3_NoPlayFromBeforeStop ==
    [][\A t \in timers, allowed \in BOOLEAN :
          (TimerFireFor(t, allowed) /\ t.id < stopMark) => NoScheduledPlay]_vars

\* C3 witness: after stop() and a later start(), a callback armed before the
\* stop has run, past its time, without playing.
C3_Witness ==
    /\ obs.op = "timer:stale"
    /\ obs.cb.id < stopMark
    /\ running
    /\ lastRandomAt = 0
    /\ audioPaused

\* C4: whenever a schedule is armed, fireAt - scheduledAt is a whole number
\* of seconds within [minSec * 1000, maxSec * 1000] of the current window.
C4_DelayWithinWindow ==
    (running /\ fireAt # 0) =>
        /\ (fireAt - scheduledAt) % 1000 = 0
        /\ fireAt - scheduledAt >= minSec * 1000
        /\ fireAt - scheduledAt <= maxSec * 1000

\* C4 witness: start() on the default window has armed a schedule with
\* fireAt - scheduledAt in [60000, 300000].
C4_Witness ==
    /\ obs.op = "toggle"
    /\ obs.armed
    /\ minSec = 60 /\ maxSec = 300
    /\ fireAt - scheduledAt >= 60000
    /\ fireAt - scheduledAt <= 300000
    /\ fireAt - scheduledAt > 60000

\* C5: the Play Now click and the resumption of its handler, resolved or
\* rejected, leave scheduledAt, fireAt, the generation, the pending timer,
\* running, minSec, maxSec and lastRandomAt unchanged.
C5_PlayNowFrame ==
    [][(btnNowClick \/ PlayNowSettled) =>
          UNCHANGED <<scheduledAt, fireAt, gen, timeoutId, timers, running,
                      minSec, maxSec, lastRandomAt>>]_vars

\* C5 witness: a Play Now has resolved while a schedule is armed.
C5_Witness ==
    /\ obs.op = "playNow:resolved"
    /\ running
    /\ fireAt # 0
    /\ \E t \in timers : t.id = timeoutId

\* C6 as stated: expandWindow() on [60, 300] yields [120, 420].
C6_Original ==
    [][(btnPlusClick /\ minSec = 60 /\ maxSec = 300) =>
          (minSec' = 120 /\ maxSec' = 420)]_vars

\* C6 amended: expandWindow() on [60, 300] yields [120, 360].
C6_ExpandDefault ==
    [][(btnPlusClick /\ minSec = 60 /\ maxSec = 300) =>
          (minSec' = 120 /\ maxSec' = 360)]_vars

\* C6 witness: the window right after an expand of the default window.
C6_Witness == obs.op = "expand" /\ minSec = 120 /\ maxSec = 360 /\ gen = 0

\* C7: expandWindow() never raises minSec above 3600 or maxSec above 7200,
\* and it leaves the window [3600, 7200] as it is.
C7_ExpandCeiling ==
    [][btnPlusClick =>
          /\ minSec' <= 3600
          /\ maxSec' <= 7200
          /\ (minSec = 3600 /\ maxSec = 7200) => (minSec' = 3600 /\ maxSec' = 7200)]_vars

\* C7 witness: expandWindow() applied, while running, to the window
\* [3600, 7200] (the re-arm shows the call was made on that window, which is
\* only reachable by expands made before the start).
C7_Witness ==
    /\ obs.op = "expand"
    /\ obs.armed
    /\ gen = 2
    /\ minSec = 3600
    /\ maxSec = 7200

\* C8: when a scheduled playback attempt is rejected, the callback still arms
\* the next schedule if the widget is running and the generation is the one
\* it captured.
C8_RejectedStillArms ==
    [][/\ \A c \in awaiting :
            (ScheduledPlaySettledFor(c, FALSE) /\ running /\ c.myGen = gen)
                => NewlyArmed
       /\ \A t \in timers :
            (TimerFireFor(t, FALSE) /\ running /\ t.myGen = gen) => NewlyArmed]_vars

\* C8 witness: a pending scheduled play was rejected and its callback armed
\* the next schedule.
C8_Witness ==
    /\ obs.op = "resume:rejected"
    /\ obs.armed
    /\ lastRandomAt = 0
    /\ \E t \in timers : t.id = timeoutId /\ t.myGen = gen /\ t.id > obs.cb.id

\* C9 as stated: a rejected scheduled playback arms no new schedule.
C9_Original ==
    [][/\ \A c \in awaiting :
            ScheduledPlaySettledFor(c, FALSE) => (gen' = gen /\ timers' \subseteq timers)
       /\ \A t \in timers :
            TimerFireFor(t, FALSE) => (gen' = gen /\ timers' \subseteq timers)]_vars

\* C9 amended: a rejected scheduled playback leaves lastRandomAt unchanged
\* and starts no other playback, and its callback arms a new schedule exactly
\* when the widget is running and the generation is the one it captured.
C9_RejectedArmsIffCurrent ==
    [][/\ \A c \in awaiting :
            ScheduledPlaySettledFor(c, FALSE) =>
                /\ lastRandomAt' = lastRandomAt
                /\ awaiting' = awaiting \ {c}
                /\ audioPaused' = audioPaused
                /\ IF running /\ c.myGen = gen THEN NewlyArmed
                   ELSE UNCHANGED <<gen, timers, timeoutId, scheduledAt, fireAt>>
       /\ \A t \in timers :
            TimerFireFor(t, FALSE) =>
                /\ lastRandomAt' = lastRandomAt
                /\ \A c \in awaiting' : c.aborted
                /\ IF running /\ t.myGen = gen THEN NewlyArmed
                   ELSE UNCHANGED <<gen, timeoutId, scheduledAt, fireAt>>]_vars

\* C9 witness: play() was refused in the timer callback, which armed the
\* next schedule in the same task.
C9_Witness ==
    /\ obs.op = "timer:blocked"
    /\ obs.armed
    /\ gen = obs.cb.myGen + 1
    /\ \E t \in timers : t.id = timeoutId /\ t.myGen = gen

\* C10 as stated: if the audio element is playing when stop() is called, it
\* is paused when stop() returns (stop() runs in the Start/Stop click while
\* running, and in the pagehide handler).
C10_Original ==
    [][((btnStartClick /\ running) \/ pagehide) => audioPaused']_vars

\* C10 amended: the pagehide handler leaves the audio element paused; the
\* Start/Stop click, stop() included, leaves the audio element as it was.
C10_OnlyPagehidePauses ==
    [][/\ pagehide => audioPaused'
       /\ btnStartClick => UNCHANGED <<audioPaused, awaiting>>]_vars

\* C10 witness: stop() has run from the Start/Stop click and the audio
\* element is still playing.
C10_Witness == obs.op = "toggle" /\ ~running /\ ~audioPaused

\* C11: lastRandomAt changes only in the step in which a scheduled playback
\* attempt completes successfully (its play() promise resolves); the clicks,
\* pagehide, the UI refresh, timer callbacks up to their await and rejected
\* scheduled playbacks leave it as it was.
C11_LastPlayedOnlyByScheduledSuccess ==
    [][(lastRandomAt' # lastRandomAt) =>
          /\ \E c \in awaiting : ~c.aborted /\ ScheduledPlaySettledFor(c, TRUE)
          /\ lastRandomAt' = now
          /\ ~(\/ btnStartClick \/ btnPlusClick \/ btnMinusClick \/ btnNowClick
               \/ PlayNowSettled \/ pagehide \/ UiTick \/ TimerFire \/ Tick
               \/ \E c \in awaiting : ScheduledPlaySettledFor(c, FALSE))]_vars

\* C11 witness: a scheduled play has resolved and set lastRandomAt, after an
\* earlier one had set it at an earlier time.
C11_Witness ==
    /\ obs.op = "resume:resolved"
    /\ lastRandomAt = now
    /\ lastRandomAt > PageLoadTime
    /\ obs.cb.myGen = 2
\* the last instant of the explored stretch of time
Horizon == PageLoadTime + MaxTicks * TickMs

\* the schedule of generation g is live: its timer is pending and due within
\* the explored time, or its callback is suspended in its await
LiveSchedule(g) ==
    /\ running
    /\ gen = g
    /\ \/ \E t \in timers : t.myGen = g /\ t.due <= Horizon
       \/ \E c \in awaiting : c.kind = "sched" /\ c.myGen = g

\* the callback of generation g has made its playback attempt and armed the
\* next schedule
AttemptedAndRearmed(g) ==
    /\ gen = g + 1
    /\ running
    /\ obs.op \in {"timer:blocked", "resume:resolved", "resume:rejected"}
    /\ obs.cb.myGen = g
    /\ obs.armed
    /\ \E t \in timers : t.myGen = gen /\ t.id = timeoutId

\* stop / start / expand / shrink has superseded the schedule of generation g
Intervened(g) ==
    /\ gen = g + 1
    /\ obs.op \in {"toggle", "pagehide", "expand", "shrink"}

\* C12: while running, with timers firing and every play() settling, a live
\* schedule leads to its playback attempt followed by the arming of the next
\* schedule, unless stop / start / expand / shrink intervenes; so without
\* them attempts go on for ever.  running becomes false only through stop()
\* (the Start / Stop click while running, or pagehide).
C12_LoopContinues ==
    /\ \A g \in 1 .. (MaxGen - 1) :
           LiveSchedule(g) ~> (AttemptedAndRearmed(g) \/ Intervened(g))
    /\ [][(running /\ ~running') => ((btnStartClick \/ pagehide) /\ gen' = gen + 1)]_vars

\* C12 witness: the second schedule in a row has had its attempt made and
\* the third armed, with no intervention since start.
C12_Witness ==
    /\ AttemptedAndRearmed(2)
    /\ nextHandle = 5
    /\ lastRandomAt = now
\* C13: within one schedule interval (running, scheduledAt and fireAt
\* unchanged, clock not going back) the progress percentage updateUI computes
\* never decreases from one instant to a later one, lies in [0, 100], and is
\* 100 whenever now >= fireAt.
C13_ProgressMonotone ==
    /\ [](LET p == progressShown(State)
          IN  /\ 0 <= p.num
              /\ p.num <= 100 * p.den
              /\ (running /\ fireAt # 0 /\ now >= fireAt) => p.num = 100 * p.den)
    /\ [][(running /\ running' /\ UNCHANGED <<scheduledAt, fireAt>> /\ now' >= now)
            => /\ progressShown(State').den = progressShown(State).den
               /\ progressShown(State').num >= progressShown(State).num]_vars

\* C13 witness: a UI refresh part-way through an interval, a minute and two
\* UI periods after the schedule was armed, with the bar strictly between 0
\* and 100.
C13_Witness ==
    /\ running
    /\ now - scheduledAt = TickMs + 2 * UiPeriodMs
    /\ now < fireAt
    /\ progressShown(State).num > 0
    /\ progressShown(State).num < 100 * progressShown(State).den
\* C14: with clearTimeout having no effect, the callback of a timer whose
\* captured generation differs from the current gen, when it runs, starts no
\* playback, leaves lastRandomAt alone and arms no schedule: nothing but the
\* fired timer entry goes away.
C14_GenerationCheckSuffices ==
    [][\A t \in timers, allowed \in BOOLEAN :
          (~clearWorks /\ TimerFireFor(t, allowed) /\ t.myGen # gen) =>
              /\ NoScheduledPlay
              /\ timers' = timers \ {t}
              /\ nextHandle' = nextHandle]_vars

\* C14 witness: no stop() has ever run; an expand while running superseded a
\* schedule whose timer stayed pending, and that timer's callback has run
\* while the loop is running, as a no-op.
C14_Witness ==
    /\ ~clearWorks
    /\ obs.op = "timer:stale"
    /\ stopMark = 0
    /\ running
    /\ minSec = 120
    /\ obs.cb.myGen < gen
    /\ now >= PageLoadTime + TickMs
    /\ lastRandomAt = 0
    /\ awaiting = {}
\* C15: a scheduled callback resumed from its await arms a new schedule if
\* and only if running is true and gen still equals the generation it
\* captured; after a stop / start / expand / shrink during the await it arms
\* nothing.  At no instant are there two live schedules: at most one timer is
\* pending, and never together with a current callback suspended in its await.
C15_ResumeRearmsOnlyIfCurrent ==
    /\ [](/\ Cardinality(timers) <= 1
          /\ ~(/\ \E t \in timers : running /\ t.myGen = gen
               /\ \E c \in awaiting : running /\ c.kind = "sched" /\ c.myGen = gen))
    /\ [][\A c \in awaiting, resolved \in BOOLEAN :
            ScheduledPlaySettledFor(c, resolved) =>
                IF running /\ c.myGen = gen
                THEN NewlyArmed
                ELSE UNCHANGED <<gen, timers, timeoutId, scheduledAt, fireAt,
                                 running, nextHandle>>]_vars

\* C15 witness: the window was expanded while a scheduled callback was
\* suspended in its await; the play resolved, the callback resumed and armed
\* nothing, and the schedule armed by the expand is the only one pending.
C15_Witness ==
    /\ obs.op = "resume:resolved"
    /\ ~obs.armed
    /\ running
    /\ stopMark = 0
    /\ minSec = 120
    /\ obs.cb.myGen = gen - 1
    /\ timers = {[id |-> timeoutId, myGen |-> gen, due |-> fireAt]}
    /\ {c \in awaiting : c.kind = "sched"} = {}
\* C16: an expand or shrink click while running invalidates the pending
\* schedule (gen incremented, old timer gone) and arms exactly one new
\* schedule whose delay lies in the window as updated by the click; while not
\* running the click changes minSec / maxSec only and arms nothing.
C16_WindowClickRearms ==
    [][(btnPlusClick \/ btnMinusClick) =>
          IF running
          THEN /\ NewlyArmed
               /\ timers' = {[id |-> timeoutId', myGen |-> gen', due |-> fireAt']}
               /\ timers' \cap timers = {}
               /\ nextHandle' = nextHandle + 1
               /\ fireAt' - scheduledAt' >= minSec' * 1000
               /\ fireAt' - scheduledAt' <= maxSec' * 1000
          ELSE UNCHANGED <<running, scheduledAt, fireAt, timeoutId, uiIntervalId,
                           lastRandomAt, gen, audioPaused, now, timers, intervals,
                           nextHandle, awaiting>>]_vars

\* C16 witness: a shrink while running has replaced the pending schedule by
\* one with a delay of 30 s, below the lower limit the window had before.
C16_Witness ==
    /\ obs.op = "shrink"
    /\ obs.armed
    /\ running
    /\ minSec = 30
    /\ maxSec = 240
    /\ fireAt - scheduledAt = 30 * 1000
    /\ timers = {[id |-> timeoutId, myGen |-> gen, due |-> fireAt]}
\* C17: gen never decreases; it goes up by one in every stop() (the
\* Start / Stop click while running, pagehide) and in every arm (the
\* Start / Stop click while stopped, expand / shrink while running, the re-arm
\* after a scheduled play); no other step changes it.  (Every handler
\* records its name in obs.op, which is tested before the handler's action
\* formula.)
C17_GenMonotone ==
    [][/\ gen' >= gen
       /\ \/ gen' = gen + 1
          \/ ~(\/ timers' \ timers # {}
               \/ obs'.op = "toggle" /\ btnStartClick
               \/ obs'.op = "pagehide" /\ pagehide
               \/ obs'.op \in {"expand", "shrink"} /\ running
                      /\ (btnPlusClick \/ btnMinusClick))
       /\ (gen' # gen) =>
              \/ (btnStartClick \/ pagehide) /\ ~running'
              \/ running' /\ \E t \in timers' \ timers : t.myGen = gen']_vars

\* C17 witness: stop() has run twice, through pagehide, on a page whose loop
\* was never started, and each run has raised gen.
C17_Witness ==
    /\ obs.op = "pagehide"
    /\ gen = 2
    /\ ~running
    /\ nextHandle = 1
\* the number of seconds a countdown text stands for
SecondsOf(txt) == IF Len(txt) = 4 THEN txt[1] * 60 + txt[3] ELSE txt[1]

\* C18 as stated: while running with a schedule armed and now <= fireAt the
\* countdown shows floor((fireAt - now) / 1000) seconds.
C18_Original ==
    (running /\ fireAt # 0 /\ now <= fireAt) =>
        SecondsOf(countdownShown(State)) = (fireAt - now) \div 1000

\* C18: while running with a schedule armed, the countdown shows the
\* remaining time fireAt - now rounded up to whole seconds, and 0 once the
\* time has come: the least s >= 0 with s * 1000 >= fireAt - now, written
\* "Xm Ys" with Y < 60 when it is a minute or more and "Ys" otherwise.
C18_CountdownRoundsUp ==
    (running /\ fireAt # 0) =>
        LET txt == countdownShown(State)
            s == SecondsOf(txt)
        IN  /\ s >= 0
            /\ s * 1000 >= fireAt - now
            /\ s > 0 => (s - 1) * 1000 < fireAt - now
            /\ Len(txt) = 4 => /\ txt[1] > 0
                               /\ txt[3] \in 0 .. 59
                               /\ txt[2] = "m " /\ txt[4] = "s"
            /\ Len(txt) # 4 => Len(txt) = 2 /\ txt[1] \in 0 .. 59 /\ txt[2] = "s"

\* C18 witness: one UI period after a 60 s schedule was armed, with 59.8 s
\* left, the countdown reads "1m 0s".
C18_Witness ==
    /\ running
    /\ fireAt - now = 60 * 1000 - UiPeriodMs
    /\ countdownShown(State) = <<1, "m ", 0, "s">>
\* C19: whenever running is false the schedule is cleared (scheduledAt = 0,
\* fireAt = 0, no timer handle held, no timer pending) and no UI refresh
\* interval is active; whenever running is true exactly one UI refresh
\* interval is active, the one whose handle uiIntervalId holds.
C19_StoppedIsCleared ==
    /\ ~running =>
           /\ scheduledAt = 0
           /\ fireAt = 0
           /\ timeoutId = 0
           /\ timers = {}
           /\ uiIntervalId = 0
           /\ intervals = {}
    /\ running =>
           /\ uiIntervalId # 0
           /\ intervals = {uiIntervalId}

\* C19 witness: the loop was started, a schedule ran to its playback, and the
\* Start / Stop click has stopped it: everything is cleared again.
C19_Witness ==
    /\ obs.op = "toggle"
    /\ ~running
    /\ lastRandomAt # 0
    /\ gen >= 3
    /\ timers = {}
    /\ intervals = {}
    /\ fireAt = 0
\* the continuations of the current schedule: pending timers that captured
\* the current gen, and callbacks of the current gen suspended in their await
LiveTimers == {t \in timers : t.myGen = gen}

LiveAwaiters == {c \in awaiting : c.kind = "sched" /\ c.myGen = gen}

\* C20: whenever running is true there is exactly one live continuation of
\* the schedule: a pending timer that captured the current gen, or a callback
\* of the current gen suspended in its playback await.
C20_ExactlyOneContinuation ==
    running => Cardinality(LiveTimers) + Cardinality(LiveAwaiters) = 1

\* C20 witness: the current timer has fired and its callback is suspended in
\* its await, next to a superseded callback still suspended in its own: no
\* timer is pending and the current callback is the one live continuation.
C20_Witness ==
    /\ running
    /\ obs.op = "timer:play"
    /\ timers = {}
    /\ Cardinality(LiveAwaiters) = 1
    /\ \E c \in awaiting : c.kind = "sched" /\ c.myGen < gen
====
